---- MODULE Spec2Model ----
(***************************************************************************)
(* Libro: a browser-local PDF library.  The model covers the root          *)
(* component App (book store, load effect, save effect, upload, progress   *)
(* update, selection), the upload dialog's form and the reader's page      *)
(* state.  One action per event handler; the React effects a handler       *)
(* triggers (the save effect on a change of books, the reader's progress   *)
(* effect on a change of currentPage) run inside the handler's action.     *)
(*                                                                         *)
(* Optional values (File | null, Book | null, author?, lastRead?) are      *)
(* sequences of length at most one.  Timestamps are clock ticks.           *)
(***************************************************************************)
EXTENDS Integers, Sequences, FiniteSets, TLC

(* ------------------------------ bounds -------------------------------- *)

\* Uploads whose encoding is started over a run.
MaxUploads == 2

\* Ticks of the wall clock (Date.now()).
MaxTime == 2

(* ------------------------- program constants -------------------------- *)

MB == 1024 * 1024

\* "if (fileSizeMB > 3)"
SizeLimitMB == 3

\* "totalPages: 100"
PlaceholderTotalPages == 100

\* The capacity of localStorage in characters ("~5MB limit").
Quota == 5 * MB

\* `book_${Date.now()}_${Math.random().toString(36).substr(2, 9)}`:
\* 5 + 13 + 1 + 9 characters.
IdLen == 28

\* new Date().toISOString(): "YYYY-MM-DDTHH:mm:ss.sssZ".
IsoLen == 24

PdfType == "application/pdf"

(* ------------------------------ inputs -------------------------------- *)

\* The files the file picker can supply.  DuneFile is sized so that two
\* fresh records of it without an author fill the storage to 27 characters
\* below Quota.
DuneFile == [stem |-> "Dune", type |-> PdfType, size |-> 1965945, numPages |-> 2]

\* One byte over the size limit.
HugeFile == [stem |-> "Huge", type |-> PdfType, size |-> 3 * MB + 1, numPages |-> 2]

\* No PDF.
NotesFile == [stem |-> "Notes", type |-> "text/plain", size |-> 2048, numPages |-> 0]

\* A small file of a document with more pages than the placeholder.
AtlasFile == [stem |-> "Atlas", type |-> PdfType, size |-> 300000, numPages |-> 101]

Files == {DuneFile, HugeFile, NotesFile}

LongFiles == {AtlasFile}

\* What the user can type into the title field.
Titles == {"", "Dune"}

\* What the user can type into the author field: it is left blank.
Authors == {""}

\* What the user can type into the reader's page field: nothing, and the
\* numbers of the last two pages of a document at hand.
PageInputs(fs) ==
    {""} \cup UNION {{ToString(f.numPages - 1), ToString(f.numPages)} :
                        f \in {g \in fs : g.type = PdfType}}

(* ---------------------------- conversions ----------------------------- *)

\* FileReader.readAsDataURL: "data:application/pdf;base64," (28 characters)
\* and four characters for every three bytes.  The document the URL encodes
\* keeps its page count.
ReadAsDataURL(f) ==
    [len |-> 28 + 4 * ((f.size + 2) \div 3), numPages |-> f.numPages]

\* selectedFile.name.replace(".pdf", "")
StripPdf(f) == f.stem

\* bookData.author || undefined
AuthorOrUndefined(a) == IF a = "" THEN <<>> ELSE <<a>>

\* JSON.stringify of one Book: a property whose value is undefined (or that
\* is absent) is left out of the object.
JSONStringifyBook(b) ==
    IF b.author = <<>>
    THEN IF b.lastRead = <<>>
         THEN [id |-> b.id, title |-> b.title, pdfUrl |-> b.pdfUrl,
               currentPage |-> b.currentPage, totalPages |-> b.totalPages,
               uploadedAt |-> b.uploadedAt]
         ELSE [id |-> b.id, title |-> b.title, pdfUrl |-> b.pdfUrl,
               currentPage |-> b.currentPage, totalPages |-> b.totalPages,
               uploadedAt |-> b.uploadedAt, lastRead |-> b.lastRead[1]]
    ELSE IF b.lastRead = <<>>
         THEN [id |-> b.id, title |-> b.title, author |-> b.author[1],
               pdfUrl |-> b.pdfUrl,
               currentPage |-> b.currentPage, totalPages |-> b.totalPages,
               uploadedAt |-> b.uploadedAt]
         ELSE [id |-> b.id, title |-> b.title, author |-> b.author[1],
               pdfUrl |-> b.pdfUrl,
               currentPage |-> b.currentPage, totalPages |-> b.totalPages,
               uploadedAt |-> b.uploadedAt, lastRead |-> b.lastRead[1]]

JSONStringify(bs) == [i \in 1..Len(bs) |-> JSONStringifyBook(bs[i])]

\* JSON.parse of one stored object, read as a Book.
JSONParseBook(o) ==
    [id |-> o.id, title |-> o.title,
     author |-> IF "author" \in DOMAIN o THEN <<o.author>> ELSE <<>>,
     pdfUrl |-> o.pdfUrl,
     currentPage |-> o.currentPage, totalPages |-> o.totalPages,
     uploadedAt |-> o.uploadedAt,
     lastRead |-> IF "lastRead" \in DOMAIN o THEN <<o.lastRead>> ELSE <<>>]

JSONParse(js) == [i \in 1..Len(js) |-> JSONParseBook(js[i])]

Digits(n) == Len(ToString(n))

\* The length of the JSON text of one stored object:
\* {"id":"..","title":"..","author":"..","pdfUrl":"..","currentPage":n,
\*  "totalPages":n,"uploadedAt":"..","lastRead":".."}
JSONLenBook(o) ==
    7 + IdLen + 11 + Len(o.title)
    + (IF "author" \in DOMAIN o THEN 12 + Len(o.author) ELSE 0)
    + 12 + o.pdfUrl.len
    + 16 + Digits(o.currentPage) + 14 + Digits(o.totalPages)
    + 15 + IsoLen + 1
    + (IF "lastRead" \in DOMAIN o THEN 13 + IsoLen + 1 ELSE 0)
    + 1

RECURSIVE SumLen(_)
SumLen(js) == IF js = <<>> THEN 0 ELSE JSONLenBook(Head(js)) + SumLen(Tail(js))

\* The length of the JSON text of the array: brackets, commas, objects.
JSONLen(js) == 2 + (IF Len(js) = 0 THEN 0 ELSE Len(js) - 1) + SumLen(js)

\* localStorage.setItem throws QuotaExceededError when the text does not fit.
Fits(js) == JSONLen(js) <= Quota

(* ------------------------------- state -------------------------------- *)

VARIABLES
    files,            \* the files on the user's disk
    books,            \* App: useState<Book[]>
    selectedBook,     \* App: useState<Book | null>, the Book clicked
    isLoading,        \* App: useState(true)
    crashed,          \* a render or an effect threw: the tree is unmounted
    persisted,        \* localStorage under STORAGE_KEY
    toast,            \* the notification the last handler raised
    now,              \* the wall clock
    uploadDialogOpen, \* BookLibrary: useState(false)
    title,            \* BookUploadDialog: useState("")
    author,           \* BookUploadDialog: useState("")
    file,             \* BookUploadDialog: useState<File | null>
    uploading,        \* BookUploadDialog: useState(false)
    inflight,         \* handleUpload calls waiting for their FileReader
    started,          \* handleUpload calls that started a FileReader
    currentPage,      \* BookReader: useState(initialPage)
    totalPages,       \* BookReader: useState(0)
    pageInput,        \* BookReader: useState(String(initialPage))
    readerIsLoading   \* BookReader: useState(true)

appVars == <<books, selectedBook, isLoading, crashed, persisted, toast, now>>

dialogVars == <<uploadDialogOpen, title, author, file, uploading>>

readerVars == <<currentPage, totalPages, pageInput, readerIsLoading>>

vars == <<files, appVars, dialogVars, readerVars, inflight, started>>

(* --------------------------- localStorage ----------------------------- *)

\* getItem gives null.
NoItem == [kind |-> "null", val |-> <<>>]

\* Text that JSON.parse rejects.
CorruptItem == [kind |-> "corrupt", val |-> <<>>]

\* Text that JSON.parse accepts and that is no array ("{}", "null", "5").
ObjectItem == [kind |-> "object", val |-> <<>>]

\* The text JSON.stringify gives for an array of Book.
ArrayItem(js) == [kind |-> "array", val |-> js]

\* The object of a book an earlier session uploaded and never opened.
Stored(f, a) ==
    JSONStringifyBook(
        [id |-> [time |-> 0, rnd |-> 0], title |-> StripPdf(f),
         author |-> AuthorOrUndefined(a), pdfUrl |-> ReadAsDataURL(f),
         currentPage |-> 1, totalPages |-> PlaceholderTotalPages,
         uploadedAt |-> 0, lastRead |-> <<>>])

InitialItems ==
    {NoItem, CorruptItem, ObjectItem, ArrayItem(<<Stored(DuneFile, "Herbert")>>)}

LongInitialItems == {ArrayItem(<<Stored(AtlasFile, "")>>)}

(* -------------------------- store operations -------------------------- *)

\* The save effect, run after a render in which books or isLoading changed
\* and isLoading is false: what localStorage holds afterwards.
SaveEffect(bs, item) ==
    IF Len(bs) > 0 /\ Fits(JSONStringify(bs))
    THEN ArrayItem(JSONStringify(bs))
    ELSE item

\* The notification of the save effect.
SaveToast(bs) ==
    IF Len(bs) > 0 /\ ~Fits(JSONStringify(bs)) THEN "saveQuota" ELSE "none"

\* handleUpload: the record built once the encoding has resolved.
NewBook(u, t) ==
    [id |-> [time |-> t, rnd |-> u.rnd],
     title |-> u.title,
     author |-> AuthorOrUndefined(u.author),
     pdfUrl |-> ReadAsDataURL(u.file),
     currentPage |-> 1,
     totalPages |-> PlaceholderTotalPages,
     uploadedAt |-> t,
     lastRead |-> <<>>]

\* TestBooks with the new record put last.
TestBooksAppend(newBook, bs) == bs \o <<newBook>>

\* const testBooks = [newBook, ...books], books being the array of the
\* render whose handleUpload was called.
TestBooks(newBook, bs) == <<newBook>> \o bs

\* BooksAfterUpload with setBooks moved in front of the speculative write.
BooksAfterUploadEager(testBooks, current) == testBooks

\* handleUpload after the speculative setItem: setBooks(testBooks) when it
\* succeeded, nothing when it threw.
BooksAfterUpload(testBooks, current) ==
    IF Fits(JSONStringify(testBooks)) THEN testBooks ELSE current

\* handleUpload: localStorage after the speculative setItem.
ItemAfterUpload(testBooks, item) ==
    IF Fits(JSONStringify(testBooks))
    THEN ArrayItem(JSONStringify(testBooks))
    ELSE item

\* totalPages || book.totalPages
TotalOr(total, existing) ==
    IF total # <<>> /\ total[1] # 0 THEN total[1] ELSE existing

\* UpdatedBook without the lastRead stamp.
UpdatedBookNoStamp(book, page, total, t) ==
    [book EXCEPT !.currentPage = page,
                 !.totalPages = TotalOr(total, book.totalPages)]

\* The record handleProgressUpdate puts in the place of a matching book.
UpdatedBook(book, page, total, t) ==
    [book EXCEPT !.currentPage = page,
                 !.totalPages = TotalOr(total, book.totalPages),
                 !.lastRead = <<t>>]

\* Matches without the comparison of the ids.
MatchesAny(book, sel) == sel # <<>>

\* The test of a handler that updates every record but the open one.
MatchesOther(book, sel) == sel # <<>> /\ book.id # sel[1].id

\* book.id === selectedBook?.id
Matches(book, sel) == sel # <<>> /\ book.id = sel[1].id

\* handleProgressUpdate: prev.map(...)
ProgressMap(prev, sel, page, total, t) ==
    [i \in 1..Len(prev) |->
        IF Matches(prev[i], sel)
        THEN UpdatedBook(prev[i], page, total, t)
        ELSE prev[i]]

\* parseInt of the page field: the number, or nothing for NaN.
ParseInt(s) ==
    LET ns == {n \in 0..(PlaceholderTotalPages + 1) : ToString(n) = s}
    IN  IF ns = {} THEN <<>> ELSE <<CHOOSE n \in ns : TRUE>>

\* if (fileSizeMB > 3)
TooLarge(f) == f.size > SizeLimitMB * MB

RemoveAt(s, k) == [i \in 1..(Len(s) - 1) |-> IF i < k THEN s[i] ELSE s[i + 1]]

(* -------------------------------- Init -------------------------------- *)

InitWith(fs, items) ==
    /\ files = fs
    /\ persisted \in items
    /\ books = <<>>
    /\ selectedBook = <<>>
    /\ isLoading = TRUE
    /\ crashed = FALSE
    /\ toast = "none"
    /\ now = 1
    /\ uploadDialogOpen = FALSE
    /\ title = ""
    /\ author = ""
    /\ file = <<>>
    /\ uploading = FALSE
    /\ inflight = <<>>
    /\ started = 0
    /\ currentPage = 1
    /\ totalPages = 0
    /\ pageInput = ""
    /\ readerIsLoading = FALSE

Init == InitWith(Files, InitialItems)

InitLong == InitWith(LongFiles, LongInitialItems)

(* ------------------------------- App ---------------------------------- *)

\* The app renders and handles events.
Alive == ~isLoading /\ ~crashed

\* The library view is mounted.
InLibrary == Alive /\ selectedBook = <<>>

\* The reader view is mounted.
InReader == Alive /\ selectedBook # <<>>

\* The mount effects: loadBooks, then the save effect of the next render.
loadBooks ==
    /\ isLoading
    /\ isLoading' = FALSE
    /\ books' = IF persisted.kind = "array" THEN JSONParse(persisted.val) ELSE <<>>
    /\ crashed' = (persisted.kind = "object")
    /\ toast' = IF persisted.kind = "corrupt" THEN "loadError" ELSE "none"
    /\ persisted' = IF persisted.kind = "object"
                    THEN persisted
                    ELSE SaveEffect(books', persisted)
    /\ UNCHANGED <<files, selectedBook, now, dialogVars, readerVars, inflight, started>>

\* The wall clock advances.
Tick ==
    /\ now < MaxTime
    /\ now' = now + 1
    /\ UNCHANGED <<files, books, selectedBook, isLoading, crashed, persisted, toast,
                   dialogVars, readerVars, inflight, started>>

(* --------------------- BookLibrary and its dialog --------------------- *)

\* "Add Book": setUploadDialogOpen(true)
openUploadDialog ==
    /\ InLibrary
    /\ ~uploadDialogOpen
    /\ uploadDialogOpen' = TRUE
    /\ toast' = "none"
    /\ UNCHANGED <<files, books, selectedBook, isLoading, crashed, persisted, now,
                   title, author, file, uploading, readerVars, inflight, started>>

\* Cancel, Escape or a click outside: onOpenChange(false).  The form keeps
\* its fields, and an upload that is waiting goes on.
dismissUploadDialog ==
    /\ InLibrary
    /\ uploadDialogOpen
    /\ uploadDialogOpen' = FALSE
    /\ toast' = "none"
    /\ UNCHANGED <<files, books, selectedBook, isLoading, crashed, persisted, now,
                   title, author, file, uploading, readerVars, inflight, started>>

\* handleFileChange: a file of another media type is not taken.
FileAfterChange(f, old) == IF f.type = PdfType THEN <<f>> ELSE old

handleFileChange(f) ==
    /\ InLibrary
    /\ uploadDialogOpen
    /\ file' = FileAfterChange(f, file)
    /\ title' = IF f.type = PdfType /\ title = "" THEN StripPdf(f) ELSE title
    /\ toast' = "none"
    /\ UNCHANGED <<files, books, selectedBook, isLoading, crashed, persisted, now,
                   uploadDialogOpen, author, uploading, readerVars, inflight,
                   started>>

\* onChange of the title field
setTitle(t) ==
    /\ InLibrary
    /\ uploadDialogOpen
    /\ title' = t
    /\ toast' = "none"
    /\ UNCHANGED <<files, books, selectedBook, isLoading, crashed, persisted, now,
                   uploadDialogOpen, author, file, uploading, readerVars,
                   inflight, started>>

\* onChange of the author field
setAuthor(a) ==
    /\ InLibrary
    /\ uploadDialogOpen
    /\ author' = a
    /\ toast' = "none"
    /\ UNCHANGED <<files, books, selectedBook, isLoading, crashed, persisted, now,
                   uploadDialogOpen, title, file, uploading, readerVars,
                   inflight, started>>

\* handleSubmit after "await onUpload(...)": the form is reset and the
\* dialog closed.  handleUpload catches every error, so this always runs.
ResetDialog ==
    /\ title' = ""
    /\ author' = ""
    /\ file' = <<>>
    /\ uploadDialogOpen' = FALSE
    /\ uploading' = FALSE

\* SubmitRejected without the check of the title.
SubmitRejectedNoTitle(f, t) == f = <<>>

\* if (!file || !title) return
SubmitRejected(f, t) == f = <<>> \/ t = ""

\* handleSubmit, and handleUpload up to its await.  The submit button is
\* disabled while uploading.
handleSubmit ==
    /\ InLibrary
    /\ uploadDialogOpen
    /\ ~uploading
    /\ IF SubmitRejected(file, title)
       THEN /\ toast' = "none"
            /\ UNCHANGED <<dialogVars, inflight, started>>
       ELSE IF TooLarge(file[1])
       THEN /\ toast' = "tooLarge"
            /\ ResetDialog
            /\ UNCHANGED <<inflight, started>>
       ELSE /\ started < MaxUploads
            /\ started' = started + 1
            /\ inflight' = Append(inflight,
                    [title |-> title, author |-> author, file |-> file[1],
                     books |-> books, rnd |-> started + 1, active |-> TRUE])
            /\ uploading' = TRUE
            /\ toast' = "none"
            /\ UNCHANGED <<uploadDialogOpen, title, author, file>>
    /\ UNCHANGED <<files, books, selectedBook, isLoading, crashed, persisted, now,
                   readerVars>>

\* The continuation of handleSubmit for the call u: the dialog that made the
\* call is reset if it is still mounted.
AfterUpload(u) ==
    IF u.active THEN ResetDialog ELSE UNCHANGED dialogVars

\* fileReader.onload, and handleUpload from its await on: build the record,
\* try the write, set the state; then the save effect of the new render.
fileReaderOnLoad(k) ==
    /\ Alive
    /\ k \in 1..Len(inflight)
    /\ LET u == inflight[k]
           testBooks == TestBooks(NewBook(u, now), u.books)
       IN  /\ books' = BooksAfterUpload(testBooks, books)
           /\ persisted' = SaveEffect(books', ItemAfterUpload(testBooks, persisted))
           /\ toast' = IF Fits(JSONStringify(testBooks)) THEN "added" ELSE "uploadQuota"
           /\ AfterUpload(u)
    /\ inflight' = RemoveAt(inflight, k)
    /\ UNCHANGED <<files, selectedBook, isLoading, crashed, now, readerVars, started>>

\* fileReader.onerror: reject, caught by handleUpload.
fileReaderOnError(k) ==
    /\ Alive
    /\ k \in 1..Len(inflight)
    /\ toast' = "uploadFailed"
    /\ AfterUpload(inflight[k])
    /\ inflight' = RemoveAt(inflight, k)
    /\ UNCHANGED <<files, books, selectedBook, isLoading, crashed, persisted, now,
                   readerVars, started>>

\* A click on the card of books[i]: setSelectedBook(book).  BookLibrary and
\* its dialog unmount, BookReader mounts with initialPage.
handleBookClick(i) ==
    /\ InLibrary
    /\ ~uploadDialogOpen
    /\ i \in 1..Len(books)
    /\ selectedBook' = <<books[i]>>
    /\ currentPage' = books[i].currentPage
    /\ totalPages' = 0
    /\ pageInput' = ToString(books[i].currentPage)
    /\ readerIsLoading' = TRUE
    /\ title' = ""
    /\ author' = ""
    /\ file' = <<>>
    /\ uploading' = FALSE
    /\ inflight' = [j \in 1..Len(inflight) |-> [inflight[j] EXCEPT !.active = FALSE]]
    /\ toast' = "none"
    /\ UNCHANGED <<files, books, isLoading, crashed, persisted, now, uploadDialogOpen,
                   started>>

(* ----------------------------- BookReader ----------------------------- *)

\* handleProgressUpdate(page, total) and the save effect after it.
handleProgressUpdate(page, total) ==
    /\ books' = ProgressMap(books, selectedBook, page, total, now)
    /\ persisted' = SaveEffect(books', persisted)
    /\ toast' = SaveToast(books')

\* setCurrentPage(p): a new page re-renders, and the progress effect and the
\* page-field effect run; the same page changes nothing.
setCurrentPage(p) ==
    IF p # currentPage
    THEN /\ currentPage' = p
         /\ pageInput' = ToString(p)
         /\ handleProgressUpdate(p, <<>>)
    ELSE /\ toast' = "none"
         /\ UNCHANGED <<currentPage, pageInput, books, persisted>>

handlePrevPage ==
    /\ InReader
    /\ IF currentPage > 1
       THEN setCurrentPage(currentPage - 1)
       ELSE /\ toast' = "none"
            /\ UNCHANGED <<currentPage, pageInput, books, persisted>>
    /\ UNCHANGED <<files, selectedBook, isLoading, crashed, now, dialogVars, totalPages,
                   readerIsLoading, inflight, started>>

handleNextPage ==
    /\ InReader
    /\ IF currentPage < totalPages
       THEN setCurrentPage(currentPage + 1)
       ELSE /\ toast' = "none"
            /\ UNCHANGED <<currentPage, pageInput, books, persisted>>
    /\ UNCHANGED <<files, selectedBook, isLoading, crashed, now, dialogVars, totalPages,
                   readerIsLoading, inflight, started>>

handlePageInputChange(v) ==
    /\ InReader
    /\ pageInput' = v
    /\ toast' = "none"
    /\ UNCHANGED <<files, books, selectedBook, isLoading, crashed, persisted, now,
                   dialogVars, currentPage, totalPages, readerIsLoading,
                   inflight, started>>

\* if (page >= 1 && page <= totalPages)
PageAccepted(page, total) == page # <<>> /\ page[1] >= 1 /\ page[1] <= total

handlePageInputSubmit ==
    /\ InReader
    /\ LET page == ParseInt(pageInput)
       IN  IF PageAccepted(page, totalPages)
           THEN setCurrentPage(page[1])
           ELSE /\ pageInput' = ToString(currentPage)
                /\ toast' = "none"
                /\ UNCHANGED <<currentPage, books, persisted>>
    /\ UNCHANGED <<files, selectedBook, isLoading, crashed, now, dialogVars, totalPages,
                   readerIsLoading, inflight, started>>

\* The renderer loaded the document of the open book: its page count.
onDocumentLoadSuccess ==
    /\ InReader
    /\ readerIsLoading
    /\ selectedBook[1].pdfUrl.numPages >= 1
    /\ totalPages' = selectedBook[1].pdfUrl.numPages
    /\ readerIsLoading' = FALSE
    /\ handleProgressUpdate(currentPage, <<selectedBook[1].pdfUrl.numPages>>)
    /\ UNCHANGED <<files, selectedBook, isLoading, crashed, now, dialogVars,
                   currentPage, pageInput, inflight, started>>

\* The renderer could not load the document.
onDocumentLoadError ==
    /\ InReader
    /\ readerIsLoading
    /\ readerIsLoading' = FALSE
    /\ toast' = "none"
    /\ UNCHANGED <<files, books, selectedBook, isLoading, crashed, persisted, now,
                   dialogVars, currentPage, totalPages, pageInput, inflight,
                   started>>

\* The close button or Escape: setSelectedBook(null).  BookReader unmounts,
\* a new BookLibrary mounts.
handleCloseReader ==
    /\ InReader
    /\ selectedBook' = <<>>
    /\ currentPage' = 1
    /\ totalPages' = 0
    /\ pageInput' = ""
    /\ readerIsLoading' = FALSE
    /\ toast' = "none"
    /\ UNCHANGED <<files, books, isLoading, crashed, persisted, now, dialogVars,
                   inflight, started>>

(* ------------------------------- Spec --------------------------------- *)

Next ==
    \/ loadBooks
    \/ Tick
    \/ openUploadDialog
    \/ dismissUploadDialog
    \/ \E f \in files : handleFileChange(f)
    \/ \E t \in Titles : setTitle(t)
    \/ \E a \in Authors : setAuthor(a)
    \/ handleSubmit
    \/ \E k \in 1..MaxUploads : fileReaderOnLoad(k)
    \/ \E k \in 1..MaxUploads : fileReaderOnError(k)
    \/ \E i \in 1..MaxUploads + 1 : handleBookClick(i)
    \/ handlePrevPage
    \/ handleNextPage
    \/ \E v \in PageInputs(files) : handlePageInputChange(v)
    \/ handlePageInputSubmit
    \/ onDocumentLoadSuccess
    \/ onDocumentLoadError
    \/ handleCloseReader

Spec == Init /\ [][Next]_vars

\* The runs with a long document on the disk and in the library, in which
\* the user reaches pages through the page field only and leaves the title
\* and author fields as the dialog fills them.
NextLong ==
    \/ loadBooks
    \/ Tick
    \/ openUploadDialog
    \/ dismissUploadDialog
    \/ \E f \in files : handleFileChange(f)
    \/ handleSubmit
    \/ \E k \in 1..MaxUploads : fileReaderOnLoad(k)
    \/ \E i \in 1..MaxUploads + 1 : handleBookClick(i)
    \/ \E v \in PageInputs(files) : handlePageInputChange(v)
    \/ handlePageInputSubmit
    \/ onDocumentLoadSuccess
    \/ onDocumentLoadError
    \/ handleCloseReader

SpecLong == InitLong /\ [][NextLong]_vars

(* ------------------------------ claims -------------------------------- *)

\* A step in which a handleUpload call ends with its record in the store.
IngestDone == Len(inflight') < Len(inflight) /\ toast' = "added"

\* A step in which a handleUpload call ends on QuotaExceededError.
IngestQuotaFailed == Len(inflight') < Len(inflight) /\ toast' = "uploadQuota"

\* Every record of old is in new with the same reading state.
Keeps(old, new) ==
    \A i \in 1..Len(old) : \E j \in 1..Len(new) :
        /\ new[j].id = old[i].id
        /\ new[j].currentPage = old[i].currentPage
        /\ new[j].totalPages = old[i].totalPages
        /\ new[j].lastRead = old[i].lastRead

\* C1: when the speculative write of an ingest fails on the quota, the
\* in-memory sequence after the ingest is the sequence before it and
\* localStorage still holds the value it held.
C1_QuotaFailureChangesNothing ==
    [][IngestQuotaFailed => books' = books /\ persisted' = persisted]_vars

\* An ingest has just failed on the quota, with books in the store.
C1_Witness ==
    /\ toast = "uploadQuota"
    /\ Len(books) >= 1
    /\ persisted = ArrayItem(JSONStringify(books))

\* C2: an ingest that completes only adds its own record: every record
\* that was in the store and in localStorage just before is still there
\* with the same currentPage, totalPages and lastRead.
C2_IngestOnlyAdds ==
    [][IngestDone =>
        /\ Keeps(books, books')
        /\ Keeps(JSONParse(persisted.val), JSONParse(persisted'.val))]_vars

\* C3: once the app has loaded and holds books, localStorage decodes to
\* exactly the in-memory sequence; a save that fails leaves the in-memory
\* sequence equal to the last one stored.
C3_StorageIsMemory ==
    Alive /\ books # <<>> =>
        /\ persisted.kind = "array"
        /\ JSONParse(persisted.val) = books

\* C4: every record of the store has 1 <= currentPage <= totalPages.
C4_PageInRange ==
    \A i \in 1..Len(books) :
        1 <= books[i].currentPage /\ books[i].currentPage <= books[i].totalPages

\* A step of the reader that calls handleProgressUpdate: the page changed
\* (the progress effect) or the document loaded (onDocumentLoadSuccess).
ProgressStep ==
    /\ InReader
    /\ selectedBook' = selectedBook
    /\ \/ currentPage' # currentPage
       \/ readerIsLoading /\ ~readerIsLoading' /\ totalPages' # totalPages

\* The open book is in the store.
SelectedInStore == \E i \in 1..Len(books) : books[i].id = selectedBook[1].id

\* C5: a progress update for a book in the store replaces its record in
\* place with currentPage = page, totalPages = the given total or else the
\* existing one, lastRead = now; length and order stay, the other records
\* stay, and id, title, author, content and uploadedAt of the record stay.
C5_ProgressUpdateInPlace ==
    [][ProgressStep /\ SelectedInStore =>
        /\ Len(books') = Len(books)
        /\ \A i \in 1..Len(books) :
             IF books[i].id = selectedBook[1].id
             THEN /\ books'[i].currentPage = currentPage'
                  /\ books'[i].totalPages =
                        (IF totalPages' # totalPages
                         THEN totalPages'
                         ELSE books[i].totalPages)
                  /\ books'[i].lastRead = <<now>>
                  /\ books'[i].id = books[i].id
                  /\ books'[i].title = books[i].title
                  /\ books'[i].author = books[i].author
                  /\ books'[i].pdfUrl = books[i].pdfUrl
                  /\ books'[i].uploadedAt = books[i].uploadedAt
             ELSE books'[i] = books[i]]_vars

\* The open book, second of two, was updated now, on a page other than the
\* one it was opened on, with the true page count; the other book was not.
C5_Witness ==
    /\ InReader
    /\ Len(books) = 2
    /\ books[2].id = selectedBook[1].id
    /\ books[2].lastRead = <<now>>
    /\ books[2].currentPage = currentPage
    /\ currentPage # selectedBook[1].currentPage
    /\ books[2].totalPages = totalPages
    /\ totalPages # 0
    /\ books[1].lastRead = <<>>
    /\ books[1].totalPages = PlaceholderTotalPages

\* C6: a progress update whose id matches no record of the store leaves the
\* sequence as it is and raises no notification.
C6_UnknownIdIsNoOp ==
    [][ProgressStep /\ ~SelectedInStore =>
        books' = books /\ toast' = "none"]_vars

\* The reader is on a book that is no longer in the store, its document
\* has loaded and the page was turned; the store holds other books.
C6_Witness ==
    /\ InReader
    /\ ~SelectedInStore
    /\ Len(books) >= 1
    /\ totalPages # 0
    /\ currentPage # selectedBook[1].currentPage

IdsOf(bs) == {bs[i].id : i \in 1..Len(bs)}

\* C7: a successful ingest makes the store one longer, its record has
\* currentPage 1, the placeholder totalPages, no lastRead and an id that
\* was not in the store; no two records of the store share an id.
C7_IngestAddsOne ==
    [][IngestDone =>
        /\ Len(books') = Len(books) + 1
        /\ \E j \in 1..Len(books') :
             /\ books'[j].id \notin IdsOf(books)
             /\ books'[j].currentPage = 1
             /\ books'[j].totalPages = PlaceholderTotalPages
             /\ books'[j].lastRead = <<>>
        /\ Cardinality(IdsOf(books')) = Len(books')]_vars

\* The position of the record with this id.
IndexOf(bs, id) == CHOOSE i \in 1..Len(bs) : bs[i].id = id

\* The records of both sequences are in the same relative order.
SameOrder(old, new) ==
    \A a, b \in IdsOf(old) \cap IdsOf(new) :
        IndexOf(old, a) < IndexOf(old, b) => IndexOf(new, a) < IndexOf(new, b)

\* C8 as stated: a successful ingest puts the new record at the end of the
\* sequence, the records already present in their order in front of it.
C8_IngestAppends ==
    [][IngestDone =>
        /\ books'[Len(books')].id \notin IdsOf(books)
        /\ SameOrder(books, books')]_vars

\* C8 as amended: a successful ingest puts the new record at the front of
\* the sequence, and the records that stay in the store keep the relative
\* order they had, behind it.
C8_IngestPrepends ==
    [][IngestDone =>
        /\ books'[1].id \notin IdsOf(books)
        /\ \A j \in 2..Len(books') : books'[j].id # books'[1].id
        /\ SameOrder(books, books')]_vars

\* An ingest has just put its record in front of two others, the older
\* upload and the book of the earlier session.
C8_Witness ==
    /\ toast = "added"
    /\ Len(books) = 3
    /\ books[1].id.rnd > books[2].id.rnd
    /\ books[2].id.rnd > books[3].id.rnd

\* C9: an upload is rejected before any encoding starts and without a
\* change of the store or of localStorage: an encoding starts only for the
\* PDF file and the non-empty title of the form, of at most 3 MB, and the
\* step that raises the size warning starts none.
C9_RejectedUploadDoesNothing ==
    [][/\ Len(inflight') > Len(inflight) =>
            /\ file # <<>>
            /\ file[1].type = PdfType
            /\ title # ""
            /\ file[1].size <= SizeLimitMB * MB
            /\ inflight'[Len(inflight')].file = file[1]
            /\ inflight'[Len(inflight')].title = title
            /\ UNCHANGED <<books, persisted>>
       /\ toast' = "tooLarge" =>
            UNCHANGED <<books, persisted, inflight>>]_vars

\* The size warning was raised, with a book in the store and no encoding
\* under way.
C9_Witness ==
    /\ toast = "tooLarge"
    /\ inflight = <<>>
    /\ Len(books) >= 1
    /\ persisted = ArrayItem(JSONStringify(books))

\* C10: loading ends without a crash; with no stored value the sequence is
\* empty, with a corrupt or malformed one it is empty and an error is
\* notified, with a valid one it is the decoded sequence.
C10_LoadNeverCrashes ==
    [][isLoading /\ ~isLoading' =>
        /\ ~crashed'
        /\ persisted.kind = "null" => books' = <<>>
        /\ persisted.kind \in {"corrupt", "object"} =>
              books' = <<>> /\ toast' = "loadError"
        /\ persisted.kind = "array" => books' = JSONParse(persisted.val)]_vars

\* C11: the navigation state is the library (no book selected) or the
\* reader of one book; the selection changes only from none to a book of
\* the library on a click and from a book to none on close; no step that
\* completes an upload, updates the progress or fails a save changes it;
\* and a progress update changes no record but the one with the id of the
\* open book.
C11_NavigationAndAttribution ==
    [][/\ selectedBook' # selectedBook =>
            \/ /\ selectedBook = <<>>
               /\ \E i \in 1..Len(books) : selectedBook' = <<books[i]>>
               /\ currentPage' = selectedBook'[1].currentPage
            \/ /\ selectedBook # <<>>
               /\ selectedBook' = <<>>
       /\ Len(inflight') < Len(inflight) \/ ProgressStep \/ toast' = "saveQuota" =>
            selectedBook' = selectedBook
       /\ ProgressStep =>
            /\ Len(books') = Len(books)
            /\ \A i \in 1..Len(books) :
                 \/ books[i].id = selectedBook[1].id
                 \/ books'[i] = books[i]
            /\ SelectedInStore =>
                 \E i \in 1..Len(books) :
                    /\ books[i].id = selectedBook[1].id
                    /\ books'[i].currentPage = currentPage'
                    /\ books'[i].lastRead = <<now>>]_vars

\* In the reader, with other books in the store: the record of the open
\* book carries a progress update, another record carries none.
C11_Witness ==
    /\ InReader
    /\ Len(books) >= 2
    /\ \E i, j \in 1..Len(books) :
         /\ books[i].id = selectedBook[1].id
         /\ books[i].lastRead # <<>>
         /\ books[j].id # selectedBook[1].id
         /\ books[j].lastRead = <<>>


\* The record of new with the id of this record, as a sequence of at most
\* one record.
Successor(book, new) ==
    SelectSeq(new, LAMBDA b : b.id = book.id)

\* C12: under any interleaving of progress updates with the other store
\* operations, the currentPage of a record is the page of the last update
\* applied to it (only a progress update changes it), its lastRead never
\* decreases from one state to the next, and a lastRead is never earlier
\* than the uploadedAt of its record.
C12_ProgressIsMonotone ==
    [][\A i \in 1..Len(books) :
         \A j \in 1..Len(Successor(books[i], books')) :
            LET old == books[i]
                new == Successor(books[i], books')[j]
            IN  /\ ~ProgressStep => new.currentPage = old.currentPage
                /\ old.lastRead # <<>> =>
                     /\ new.lastRead # <<>>
                     /\ new.lastRead[1] >= old.lastRead[1]
                /\ new.lastRead # <<>> => new.lastRead[1] >= new.uploadedAt]_vars


\* A step in which the renderer reports the document of the open book
\* loaded (onDocumentLoadSuccess).
LoadSuccessStep ==
    /\ InReader
    /\ selectedBook' = selectedBook
    /\ readerIsLoading
    /\ ~readerIsLoading'
    /\ totalPages' # totalPages

\* A step in which the renderer reports that the document could not be
\* loaded (onDocumentLoadError).
LoadErrorStep ==
    /\ InReader
    /\ selectedBook' = selectedBook
    /\ readerIsLoading
    /\ ~readerIsLoading'
    /\ totalPages' = totalPages

\* C13: when the document of the open book loads with n >= 1 pages, the
\* record of the book gets totalPages = n and the current page of the
\* reader; when it fails to load, the records stay; and no other step
\* changes the totalPages of a record.
C13_TotalPagesOnlyFromLoad ==
    [][/\ LoadSuccessStep =>
            \A i \in 1..Len(books) :
               books[i].id = selectedBook[1].id =>
                  /\ books'[i].totalPages = totalPages'
                  /\ totalPages' = selectedBook[1].pdfUrl.numPages
                  /\ books'[i].currentPage = currentPage
       /\ LoadErrorStep => books' = books
       /\ ~LoadSuccessStep =>
            \A i \in 1..Len(books) :
               \A j \in 1..Len(Successor(books[i], books')) :
                  Successor(books[i], books')[j].totalPages = books[i].totalPages]_vars


\* A step that selects a book of the library (handleBookClick).
SelectStep == selectedBook = <<>> /\ selectedBook' # <<>>

\* A step that closes the reader (handleCloseReader) after the document
\* had loaded, so that the page of the reader was reported to the store.
CloseStep == InReader /\ selectedBook' = <<>> /\ totalPages # 0

\* C14: the reading position is resumed.  When the reader is closed on
\* page p the record of the book has currentPage = p; no step taken
\* outside the reader changes the currentPage of a record or drops it; and
\* a reader that opens starts on the currentPage the record has then.
C14_PositionResumed ==
    [][/\ CloseStep =>
            \E i \in 1..Len(books') :
               /\ books'[i].id = selectedBook[1].id
               /\ books'[i].currentPage = currentPage
       /\ selectedBook = <<>> =>
            \A i \in 1..Len(books) :
               \E j \in 1..Len(books') :
                  /\ books'[j].id = books[i].id
                  /\ books'[j].currentPage = books[i].currentPage
       /\ SelectStep =>
            \E i \in 1..Len(books) :
               /\ books[i].id = selectedBook'[1].id
               /\ currentPage' = books[i].currentPage]_vars

====
